---- MODULE Spec2Model ----
(***************************************************************************)
(* A model of muskit/train/dataset.py: the loader registry DATA_TYPES, the *)
(* per-format adapters and MuskitDataset (construction, names, has_name,   *)
(* iteration and __getitem__).                                             *)
(*                                                                         *)
(* Python strings that the code inspects character by character (loader    *)
(* type tags, utterance ids) are sequences of one-character strings.       *)
(* Strings that are only compared for equality (modality names, paths,     *)
(* dtype kinds) are TLA+ strings.                                          *)
(***************************************************************************)
EXTENDS Integers, Sequences, FiniteSets, TLC

\* ------------------------------------------------------------------ bounds
\* Length of the longest array a fixture file holds.
MaxLen == 3

\* ----------------------------------------------------------------- strings
Digits == {"0", "1", "2", "3", "4", "5", "6", "7", "8", "9"}

\* The regular expressions of DATA_TYPES use literal characters and \d+ only.
\* re.match(pat, s): pat[i..] matches some prefix of s[j..] (no end anchor).
RECURSIVE MatchAt(_, _, _, _)
MatchAt(pat, i, s, j) ==
    IF i > Len(pat) THEN TRUE
    ELSE IF pat[i] = "\\" /\ i + 2 <= Len(pat) /\ pat[i + 1] = "d" /\ pat[i + 2] = "+"
    THEN \E k \in 1..(Len(s) - j + 1) :
            /\ \A m \in j..(j + k - 1) : s[m] \in Digits
            /\ MatchAt(pat, i + 3, s, j + k)
    ELSE /\ j <= Len(s)
         /\ s[j] = pat[i]
         /\ MatchAt(pat, i + 1, s, j + 1)

\* A variant that also requires the whole of s to be consumed (re.fullmatch).
RECURSIVE FullMatchAt(_, _, _, _)
FullMatchAt(pat, i, s, j) ==
    IF i > Len(pat) THEN j = Len(s) + 1
    ELSE IF pat[i] = "\\" /\ i + 2 <= Len(pat) /\ pat[i + 1] = "d" /\ pat[i + 2] = "+"
    THEN \E k \in 1..(Len(s) - j + 1) :
            /\ \A m \in j..(j + k - 1) : s[m] \in Digits
            /\ FullMatchAt(pat, i + 3, s, j + k)
    ELSE /\ j <= Len(s)
         /\ s[j] = pat[i]
         /\ FullMatchAt(pat, i + 1, s, j + 1)

ReFullMatch(pat, s) == FullMatchAt(pat, 1, s, 1)

ReMatch(pat, s) == MatchAt(pat, 1, s, 1)

\* str.split("_") restricted to what rand_int_loader needs: the parts of s
\* between underscores, from position i on.
RECURSIVE SplitUnderscore(_, _, _)
SplitUnderscore(s, i, cur) ==
    IF i > Len(s) THEN <<cur>>
    ELSE IF s[i] = "_" THEN <<cur>> \o SplitUnderscore(s, i + 1, <<>>)
    ELSE SplitUnderscore(s, i + 1, Append(cur, s[i]))

\* int(x) succeeds on a non-empty run of digits.
IsIntLiteral(x) == Len(x) > 0 /\ \A m \in 1..Len(x) : x[m] \in Digits

\* -------------------------------------------------------------- DATA_TYPES
K_sound == <<"s", "o", "u", "n", "d">>
K_midi == <<"m", "i", "d", "i">>
K_duration == <<"d", "u", "r", "a", "t", "i", "o", "n">>
K_kaldi_ark == <<"k", "a", "l", "d", "i", "_", "a", "r", "k">>
K_npy == <<"n", "p", "y">>
K_text_int == <<"t", "e", "x", "t", "_", "i", "n", "t">>
K_csv_int == <<"c", "s", "v", "_", "i", "n", "t">>
K_text_float == <<"t", "e", "x", "t", "_", "f", "l", "o", "a", "t">>
K_csv_float == <<"c", "s", "v", "_", "f", "l", "o", "a", "t">>
K_text == <<"t", "e", "x", "t">>
K_hdf5 == <<"h", "d", "f", "5">>
K_rand_float == <<"r", "a", "n", "d", "_", "f", "l", "o", "a", "t">>
K_rand_int_prefix == <<"r", "a", "n", "d", "_", "i", "n", "t", "_">>
K_rand_int == K_rand_int_prefix \o <<"\\", "d", "+", "_", "\\", "d", "+">>

\* The registry in its insertion order: the key and the function it names.
DATA_TYPES ==
    << [key |-> K_sound,      func |-> "sound_loader"],
       [key |-> K_midi,       func |-> "midi_loader"],
       [key |-> K_duration,   func |-> "label_loader"],
       [key |-> K_kaldi_ark,  func |-> "kaldi_loader"],
       [key |-> K_npy,        func |-> "NpyScpReader"],
       [key |-> K_text_int,   func |-> "load_num_sequence_text"],
       [key |-> K_csv_int,    func |-> "load_num_sequence_text"],
       [key |-> K_text_float, func |-> "load_num_sequence_text"],
       [key |-> K_csv_float,  func |-> "load_num_sequence_text"],
       [key |-> K_text,       func |-> "read_2column_text"],
       [key |-> K_hdf5,       func |-> "H5FileWrapper"],
       [key |-> K_rand_float, func |-> "FloatRandomGenerateDataset"],
       [key |-> K_rand_int,   func |-> "rand_int_loader"] >>

\* rand_int_loader: low, high = map(int, loader_type[len("rand_int_"):].split("_"));
\* a ValueError (a part that is no integer, or not exactly two parts) becomes
\* a RuntimeError.
RandIntParts(loader_type) ==
    SplitUnderscore(loader_type, Len(K_rand_int_prefix) + 1, <<>>)

rand_int_loader_ok(loader_type) ==
    LET parts == RandIntParts(loader_type)
    IN  /\ Len(parts) = 2
        /\ \A m \in 1..Len(parts) : IsIntLiteral(parts[m])

\* The test _build_loader applies to one registry key.
KeyMatches(key, loader_type) == ReMatch(key, loader_type)

\* Index of the first registry entry whose key matches, 0 when none does.
RECURSIVE FirstMatchFrom(_, _)
FirstMatchFrom(loader_type, i) ==
    IF i > Len(DATA_TYPES) THEN 0
    ELSE IF KeyMatches(DATA_TYPES[i].key, loader_type) THEN i
    ELSE FirstMatchFrom(loader_type, i + 1)

FirstMatch(loader_type) == FirstMatchFrom(loader_type, 1)

\* ----------------------------------------------------------- Python values
\* One shape for every value: an ndarray has a dtype and its rows in data (one
\* integer per index of the leading dimension); a tuple has items; a str or a
\* list of symbols has chars.
PyArr(dtype, data) ==
    [kind |-> "ndarray", dtype |-> dtype, data |-> data, items |-> <<>>, chars |-> <<>>]
PyTup(items) ==
    [kind |-> "tuple", dtype |-> "", data |-> <<>>, items |-> items, chars |-> <<>>]
PyStr(chars) ==
    [kind |-> "str", dtype |-> "", data |-> <<>>, items |-> <<>>, chars |-> chars]
PyList(chars) ==
    [kind |-> "list", dtype |-> "", data |-> <<>>, items |-> <<>>, chars |-> chars]
PyNone == [kind |-> "none", dtype |-> "", data |-> <<>>, items |-> <<>>, chars |-> <<>>]

\* numpy's dtype.kind
DKind(dtype) ==
    CASE dtype \in {"float64", "float32"} -> "f"
      [] dtype \in {"int64", "int32", "long"} -> "i"
      [] dtype = "uint8" -> "u"
      [] OTHER -> "O"

\* len(value): the leading dimension of an array, the number of items of a
\* tuple, the number of characters of a str.
PyLen(v) ==
    CASE v.kind = "ndarray" -> Len(v.data)
      [] v.kind = "tuple" -> Len(v.items)
      [] OTHER -> Len(v.chars)

\* value[b:e] with 0 <= b, Python's clamping of e, on any sequence kind.
Slice(seq, b, e) ==
    LET hi == IF e > Len(seq) THEN Len(seq) ELSE e
    IN  IF b >= hi THEN <<>> ELSE SubSeq(seq, b + 1, hi)

PySlice(v, b, e) ==
    CASE v.kind = "ndarray" -> [v EXCEPT !.data = Slice(v.data, b, e)]
      [] v.kind = "tuple" -> [v EXCEPT !.items = Slice(v.items, b, e)]
      [] OTHER -> [v EXCEPT !.chars = Slice(v.chars, b, e)]

\* A Python dict: its keys in insertion order and the value of each.
EmptyDict == [keys |-> <<>>, val |-> <<>>]
DictHas(d, k) == \E i \in 1..Len(d.keys) : d.keys[i] = k
DictSet(d, k, v) ==
    IF DictHas(d, k)
    THEN [d EXCEPT !.val = [x \in DOMAIN d.val |-> IF x = k THEN v ELSE d.val[x]]]
    ELSE [keys |-> Append(d.keys, k),
          val |-> [x \in (DOMAIN d.val) \cup {k} |-> IF x = k THEN v ELSE d.val[x]]]
KeySet(d) == {d.keys[i] : i \in 1..Len(d.keys)}

\* ---------------------------------------------------------------- fixtures
\* Utterance ids. "u10" has three characters.
U1 == <<"u", "1">>
U2 == <<"u", "2">>
U10 == <<"u", "1", "0">>
Ids == {U1, U2, U10}

\* Ids that name their singer: one tag of speaker_lst each, and one with two.
U_oniku == <<"o", "n", "i", "k", "u">>
U_ofuton == <<"o", "f", "u", "t", "o", "n">>
U_both == U_oniku \o U_ofuton

\* The index files on disk: the ids of each in file order and the format each
\* was written in.
Files ==
    [p \in {"wav.scp", "wav_rev.scp", "midi.scp", "midi_spk.scp", "label", "feats.scp",
            "token_int", "text", "shape", "long_int", "long.npy", "empty.scp"} |->
        CASE p = "wav.scp"   -> [ids |-> <<U1, U2, U10>>, fmt |-> "sound", no |-> 1]
          [] p = "wav_rev.scp" -> [ids |-> <<U1, U2>>, fmt |-> "sound_rev", no |-> 1]
          [] p = "midi.scp"  -> [ids |-> <<U1, U2, U10>>, fmt |-> "midi", no |-> 2]
          [] p = "midi_spk.scp" ->
                [ids |-> <<U_oniku, U_ofuton, U_both, U2>>, fmt |-> "midi", no |-> 2]
          [] p = "label"     -> [ids |-> <<U1, U2, U10>>, fmt |-> "label", no |-> 3]
          [] p = "feats.scp" -> [ids |-> <<U1, U2, U10>>, fmt |-> "float", no |-> 4]
          [] p = "token_int" -> [ids |-> <<U2, U1>>, fmt |-> "int", no |-> 5]
          [] p = "text"      -> [ids |-> <<U1, U2, U10>>, fmt |-> "text", no |-> 6]
          [] p = "shape"     -> [ids |-> <<U1, U2>>, fmt |-> "shape", no |-> 7]
          [] p = "long_int"  -> [ids |-> <<U1>>, fmt |-> "int", no |-> 9]
          [] p = "long.npy"  -> [ids |-> <<U1>>, fmt |-> "float", no |-> 3]
          [] OTHER           -> [ids |-> <<>>, fmt |-> "float", no |-> 8]]

IdNo(uid) == IF uid = U1 THEN 0 ELSE IF uid = U2 THEN 1 ELSE 2

\* The length of the entries of the files "long_int" and "long.npy": long
\* enough for a mask of a fifth of it to cover a row.
LongLen == 5

\* The length of the entry of uid in the file at path, for the seed chosen at
\* start: between 1 and MaxLen, different files and ids getting different
\* lengths.
EntryLen(seed, path, uid) ==
    IF path \in {"long_int", "long.npy"} THEN LongLen
    ELSE 1 + ((seed + Files[path].no + IdNo(uid)) % MaxLen)

\* Row i of an entry: its position, tagged with the file it came from.
Rows(path, n, shift) == [i \in 1..n |-> 10 * Files[path].no + i + shift]

\* The sampling rate of each recording.
RateOf(uid) == IF uid = U10 THEN 8000 ELSE 16000

HasKey(path, key) == \E i \in 1..Len(Files[path].ids) : Files[path].ids[i] = key

\* ---------------------------------------------------- the loaders' storage
PyInt(n) ==
    [kind |-> "int", dtype |-> "", data |-> <<n>>, items |-> <<>>, chars |-> <<>>]

\* A key as a loader receives it: the bare id (tuple = FALSE), or the triple
\* (id, pitch factor, time factor). num is FALSE when the two factors are
\* characters instead of numbers.
StrKey(uid) == [tuple |-> FALSE, uid |-> uid, num |-> TRUE, pitch |-> 0, time |-> 0]
AugKey(uid, pitch, time) ==
    [tuple |-> TRUE, uid |-> uid, num |-> TRUE, pitch |-> pitch, time |-> time]

Fail(e) == [err |-> e, val |-> PyNone]
Ok(v) == [err |-> "", val |-> v]

\* The readers of muskit.fileio behind each registry function: what one
\* returns for a key. The readers that take (id, pitch, time) apply the pitch
\* factor to what they return; the others are dicts keyed by id, and a random
\* reader draws a fresh array (every row rnd) of the shape on file. The sound
\* reader returns (rate, waveform), or (waveform, rate) for a file read
\* through the backend that orders them so.
NativeGet(func, path, seed, k, rnd) ==
    LET n == EntryLen(seed, path, k.uid)
    IN  CASE func \in {"sound_loader", "midi_loader"} ->
                IF ~k.tuple \/ ~HasKey(path, k.uid) THEN Fail("KeyError")
                ELSE IF ~k.num THEN Fail("TypeError")
                ELSE IF func = "sound_loader" /\ Files[path].fmt = "sound_rev"
                THEN Ok(PyTup(<<PyArr("float64", Rows(path, n, k.pitch)),
                                PyInt(RateOf(k.uid))>>))
                ELSE IF func = "sound_loader"
                THEN Ok(PyTup(<<PyInt(RateOf(k.uid)),
                                PyArr("float64", Rows(path, n, k.pitch))>>))
                ELSE Ok(PyTup(<<PyArr("int64", Rows(path, n, k.pitch)),
                                PyArr("int64", Rows(path, n, 0))>>))
          [] func \in {"FloatRandomGenerateDataset", "rand_int_loader"} ->
                IF k.tuple \/ ~HasKey(path, k.uid) THEN Fail("KeyError")
                ELSE Ok(PyArr(IF func = "rand_int_loader" THEN "int64" ELSE "float32",
                              [i \in 1..n |-> rnd]))
          [] func = "label_loader" ->
                IF k.tuple \/ ~HasKey(path, k.uid) THEN Fail("KeyError")
                ELSE Ok([PyList([i \in 1..n |-> "p"]) EXCEPT !.data = Rows(path, n, 0)])
          [] func = "read_2column_text" ->
                IF k.tuple \/ ~HasKey(path, k.uid) THEN Fail("KeyError")
                ELSE Ok(PyStr([i \in 1..n |-> "a"]))
          [] OTHER ->
                IF k.tuple \/ ~HasKey(path, k.uid) THEN Fail("KeyError")
                ELSE Ok(PyArr(IF Files[path].fmt = "int" THEN "int64" ELSE "float64",
                              Rows(path, n, 0)))

\* ---------------------------------------------------------------- adapters
\* key, pitch_aug_factor, time_aug_factor = key: a triple unpacks to itself, a
\* str of three characters to its characters, anything else raises ValueError.
Unpack3(k) ==
    IF k.tuple THEN [err |-> "", key |-> k]
    ELSE IF Len(k.uid) = 3
    THEN [err |-> "",
          key |-> [tuple |-> TRUE, uid |-> <<k.uid[1]>>, num |-> FALSE,
                   pitch |-> 0, time |-> 0]]
    ELSE [err |-> "ValueError", key |-> k]

Failed(e, rate) == [err |-> e, val |-> PyNone, rate |-> rate]

\* The dtype cast of the sound adapter: array.astype(self.dtype)
AsType(array, dtype) == IF dtype # "None" THEN [array EXCEPT !.dtype = dtype] ELSE array

\* An adapter that remembers the rate of the last lookup without comparing.
SoundAdapterReturn_LastRate(retval, rate, float_dtype) ==
    IF retval.kind = "tuple"
    THEN IF Len(retval.items) # 2 THEN Failed("AssertionError", rate)
         ELSE IF ~(retval.items[1].kind = "int" /\ retval.items[2].kind = "ndarray")
         THEN Failed("RuntimeError", rate)
         ELSE [err |-> "", val |-> AsType(retval.items[2], float_dtype),
               rate |-> retval.items[1].data[1]]
    ELSE IF retval.kind = "list" THEN [err |-> "", val |-> retval, rate |-> rate]
    ELSE IF retval.kind # "ndarray" THEN Failed("AssertionError", rate)
    ELSE [err |-> "", val |-> AsType(retval, float_dtype), rate |-> rate]

\* AdapterForSoundScpReader.__getitem__ from retval on: the value, and the
\* rate the adapter remembers afterwards (0 is None). Both branches of the
\* tuple case test the same condition, (int, ndarray).
SoundAdapterReturn(retval, rate, float_dtype) ==
    IF retval.kind = "tuple"
    THEN IF Len(retval.items) # 2 THEN Failed("AssertionError", rate)
         ELSE IF ~(retval.items[1].kind = "int" /\ retval.items[2].kind = "ndarray")
         THEN Failed("RuntimeError", rate)
         ELSE IF rate # 0 /\ rate # retval.items[1].data[1]
         THEN Failed("RuntimeError", rate)
         ELSE [err |-> "", val |-> AsType(retval.items[2], float_dtype),
               rate |-> retval.items[1].data[1]]
    ELSE IF retval.kind = "list" THEN [err |-> "", val |-> retval, rate |-> rate]
    ELSE IF retval.kind # "ndarray" THEN Failed("AssertionError", rate)
    ELSE [err |-> "", val |-> AsType(retval, float_dtype), rate |-> rate]

SoundAdapterLookup(r, rate, float_dtype) ==
    IF r.err # "" THEN Failed(r.err, rate)
    ELSE SoundAdapterReturn(r.val, rate, float_dtype)

SoundAdapterGet(func, path, seed, rate, k, float_dtype) ==
    IF Unpack3(k).err # "" THEN Failed(Unpack3(k).err, rate)
    ELSE SoundAdapterLookup(NativeGet(func, path, seed, Unpack3(k).key, 0), rate,
                            float_dtype)

\* AdapterForMIDIScpReader.__getitem__ from retval on
MidiAdapterReturn(retval) ==
    IF PyLen(retval) # 2 THEN Fail("AssertionError")
    ELSE IF ~(retval.items[1].kind = "ndarray" /\ retval.items[2].kind = "ndarray")
    THEN Fail("RuntimeError")
    ELSE Ok(PyTup(<<retval.items[1], retval.items[2]>>))

MidiAdapterLookup(r) == IF r.err # "" THEN r ELSE MidiAdapterReturn(r.val)

MidiAdapterGet(path, seed, k) ==
    IF Unpack3(k).err # "" THEN Fail(Unpack3(k).err)
    ELSE MidiAdapterLookup(NativeGet("midi_loader", path, seed, Unpack3(k).key, 0))

\* AdapterForLabelScpReader.__getitem__ from retval on: (sample_time,
\* sample_label). sample_time is np.zeros((seq_len, 2)), a float64 array.
LabelAdapterReturn(retval) ==
    IF retval.kind # "list" THEN Fail("AssertionError")
    ELSE Ok(PyTup(<<PyArr("float64", retval.data), PyList(retval.chars)>>))

LabelAdapterLookup(r) == IF r.err # "" THEN r ELSE LabelAdapterReturn(r.val)

LabelAdapterGet(path, seed, k) ==
    LabelAdapterLookup(NativeGet("label_loader", path, seed, k, 0))

WithRate(r, rate) == [err |-> r.err, val |-> r.val, rate |-> rate]

\* loader[key] for a loader of loader_dict: the value or the error, and the
\* rate its adapter remembers afterwards.
LoaderGet(loader, seed, rate, k, rnd) ==
    CASE loader.func \in {"sound_loader", "kaldi_loader"} ->
            SoundAdapterGet(loader.func, loader.path, seed, rate, k, loader.dtype)
      [] loader.func = "midi_loader" ->
            WithRate(MidiAdapterGet(loader.path, seed, k), rate)
      [] loader.func = "label_loader" ->
            WithRate(LabelAdapterGet(loader.path, seed, k), rate)
      [] OTHER ->
            WithRate(NativeGet(loader.func, loader.path, seed, k, rnd), rate)

\* ------------------------------------------------------------ construction
\* _build_loader: the registry function for loader_type, "" when the else
\* branch of the for loop raises or the function itself does.
\* sound_loader gets float_dtype; kaldi_loader gets max_cache_fd only.
BuildEntry(i, loader_type) ==
    IF i = 0 THEN ""
    ELSE IF DATA_TYPES[i].func = "rand_int_loader" /\ ~rand_int_loader_ok(loader_type)
    THEN ""
    ELSE DATA_TYPES[i].func

BuildLoaderFunc(loader_type) == BuildEntry(FirstMatch(loader_type), loader_type)

\* A loader stored under its path instead of its name.
NewLoader_ByPath(d, func, float_dtype) ==
    [name |-> d.path, path |-> d.path, type |-> d.type, func |-> func,
     dtype |-> IF func = "sound_loader" THEN float_dtype ELSE "None"]

NewLoader(d, func, float_dtype) ==
    [name |-> d.name, path |-> d.path, type |-> d.type, func |-> func,
     dtype |-> IF func = "sound_loader" THEN float_dtype ELSE "None"]

LoaderNames(ld) == [i \in 1..Len(ld) |-> ld[i].name]
InLoaderDict(ld, name) == \E i \in 1..Len(ld) : ld[i].name = name
LoaderLen(loader) == Len(Files[loader.path].ids)

\* A loop without the duplicate test.
IsDuplicate_Never(ld, d) == FALSE

\* A loop without the emptiness test.
HasNoSamples_Never(loader) == FALSE

\* The duplicate test of the constructor's loop, made before the loader of
\* declaration d is built.
IsDuplicate(ld, d) == InLoaderDict(ld, d.name)

\* The emptiness test of the constructor's loop, made on the loader just stored.
HasNoSamples(loader) == LoaderLen(loader) = 0

\* The loop of __init__ over path_name_type_list from declaration i on: the
\* error it stops with ("" when it completes), the loader_dict and the
\* declarations a loader was built for.
RECURSIVE InitLoop(_, _, _, _, _)
InitBuilt(decl, i, ld, built, float_dtype, func) ==
    IF func = ""
    THEN [err |-> "RuntimeError: not supported", ld |-> ld, built |-> Append(built, i)]
    ELSE IF HasNoSamples(NewLoader(decl[i], func, float_dtype))
    THEN [err |-> "RuntimeError: no samples",
          ld |-> Append(ld, NewLoader(decl[i], func, float_dtype)),
          built |-> Append(built, i)]
    ELSE InitLoop(decl, i + 1, Append(ld, NewLoader(decl[i], func, float_dtype)),
                  Append(built, i), float_dtype)

InitLoop(decl, i, ld, built, float_dtype) ==
    IF i > Len(decl) THEN [err |-> "", ld |-> ld, built |-> built]
    ELSE IF IsDuplicate(ld, decl[i])
    THEN [err |-> "RuntimeError: duplicated", ld |-> ld, built |-> built]
    ELSE InitBuilt(decl, i, ld, built, float_dtype, BuildLoaderFunc(decl[i].type))

\* A cache made for every budget, zero included.
MakesCache_NonNegative(max_cache_size) == max_cache_size >= 0

\* self.cache is a SizedDict when max_cache_size > 0 and None otherwise.
MakesCache(max_cache_size) == max_cache_size > 0

\* The rest of __init__ after the loop ended with r.
InitRest(c, r) ==
    IF r.err # ""
    THEN [err |-> r.err, ld |-> r.ld, built |-> r.built, has_cache |-> FALSE]
    ELSE IF ~(c.pitch_aug_min <= c.pitch_aug_max)
            \/ ~(c.time_aug_min <= c.time_aug_max)
            \/ (c.pitch_mean.kind # "None"
                /\ ~(c.pitch_aug_min = 0 /\ c.pitch_aug_max = 0))
    THEN [err |-> "AssertionError", ld |-> r.ld, built |-> r.built,
          has_cache |-> MakesCache(c.max_cache_size)]
    ELSE [err |-> "", ld |-> r.ld, built |-> r.built,
          has_cache |-> MakesCache(c.max_cache_size)]

\* MuskitDataset.__init__
DatasetInit(c) ==
    IF Len(c.decl) = 0
    THEN [err |-> "ValueError", ld |-> <<>>, built |-> <<>>, has_cache |-> FALSE]
    ELSE InitRest(c, InitLoop(c.decl, 1, <<>>, <<>>, c.float_dtype))

\* has_name and names
has_name(ld, name) == InLoaderDict(ld, name)
names(ld) == LoaderNames(ld)

\* ------------------------------------------------------------- __getitem__
\* Time factors are written in hundredths: 100 is the factor 1.
Hundred == 100

LoaderOf(ld, name) == ld[CHOOSE i \in 1..Len(ld) : ld[i].name = name]

\* The key __getitem__ passes to the loader called name: the modalities
\* called "midi" and "singing" get (uid, pitch, 1), the others the id.
IsAugName(name) == name = "midi" \/ name = "singing"

\* Keys that shift the audio and leave the notes as written.
KeyFor_MidiUnshifted(name, uid, pitch) ==
    IF name = "singing" THEN AugKey(uid, pitch, 1)
    ELSE IF name = "midi" THEN AugKey(uid, 0, 1)
    ELSE StrKey(uid)

KeyFor(name, uid, pitch) == IF IsAugName(name) THEN AugKey(uid, pitch, 1) ELSE StrKey(uid)

\* What __getitem__ accepts from a loader, after a list became an array:
\* ndarray, str, number or tuple.
AcceptedKind(v) == v.kind \in {"ndarray", "str", "int", "tuple"}

\* list -> np.array(list); number -> np.array([number])
Normalize(v) ==
    CASE v.kind = "list" -> PyArr("float64", v.data)
      [] v.kind = "int" -> PyArr("int64", v.data)
      [] OTHER -> v

\* A query of a loader as the dataset makes it, and whether the loader
\* answered it (ok) or raised.
QueryEntry(name, k) ==
    [name |-> name, tuple |-> k.tuple, uid |-> k.uid, pitch |-> k.pitch, time |-> k.time,
     ok |-> TRUE]

\* The queries q, the last of which raised.
Missed(q) == [q EXCEPT ![Len(q)].ok = FALSE]

\* Step 1, the loop over loader_dict from loader i on: data so far, the rates
\* the adapters remember, and the queries made. It stops at the first error.
RECURSIVE LoadLoop(_, _, _, _, _, _, _, _, _)
LoadStep(ld, i, seed, uid, pitch, rnd, data, rate, qlog, r) ==
    IF r.err # ""
    THEN [err |-> r.err, data |-> data,
          rate |-> [rate EXCEPT ![ld[i].name] = r.rate], qlog |-> Missed(qlog)]
    ELSE IF ~AcceptedKind(Normalize(r.val))
    THEN [err |-> "TypeError", data |-> data,
          rate |-> [rate EXCEPT ![ld[i].name] = r.rate], qlog |-> qlog]
    ELSE LoadLoop(ld, i + 1, seed, uid, pitch, rnd,
                  DictSet(data, ld[i].name, Normalize(r.val)),
                  [rate EXCEPT ![ld[i].name] = r.rate], qlog)

LoadLoop(ld, i, seed, uid, pitch, rnd, data, rate, qlog) ==
    IF i > Len(ld) THEN [err |-> "", data |-> data, rate |-> rate, qlog |-> qlog]
    ELSE LoadStep(ld, i, seed, uid, pitch, rnd, data, rate,
                  Append(qlog, QueryEntry(ld[i].name, KeyFor(ld[i].name, uid, pitch))),
                  LoaderGet(ld[i], seed, rate[ld[i].name],
                            KeyFor(ld[i].name, uid, pitch), rnd))

\* The loaders that keep their arrays in memory and hand out the arrays
\* themselves: the dicts load_num_sequence_text reads at construction. The
\* other readers read the file anew at each lookup.
InMemory(loader) == loader.func = "load_num_sequence_text"

ZeroRows(v, S) ==
    [v EXCEPT !.data = [i \in 1..Len(v.data) |-> IF i \in S THEN 0 ELSE v.data[i]]]

\* What the loading loop gave, the arrays of the in-memory loaders being as
\* they are in memory now: with the rows in held written to zero.
WithHeld(l, ld, held, uid) ==
    [l EXCEPT !.data.val =
        [x \in DOMAIN @ |->
            IF InMemory(LoaderOf(ld, x))
            THEN ZeroRows(@[x], {i \in 1..Len(@[x].data) : <<x, uid, i>> \in held})
            ELSE @[x]]]

\* The preprocessing function handed to the constructor (CommonPreprocessor):
\* it keeps the keys and turns every value into an array: a tuple into its
\* first array, a str into its token ids.
PreprocessValue(v) ==
    CASE v.kind = "tuple" -> v.items[1]
      [] v.kind = "str" -> PyArr("int64", [i \in 1..Len(v.chars) |-> 1])
      [] OTHER -> v

Preprocess(uid, data, time) ==
    [keys |-> data.keys, val |-> [x \in DOMAIN data.val |-> PreprocessValue(data.val[x])]]

\* The keys that take part in the alignment, in dict order.
AlignedKeys(data, not_align) == SelectSeq(data.keys, LAMBDA x : x \notin not_align)

SeqMin(q) == CHOOSE m \in {q[i] : i \in 1..Len(q)} : \A j \in 1..Len(q) : m <= q[j]

\* length = min([len(data[key]) for key in data.keys() if key not in not_align]);
\* -1 stands for the ValueError min() raises on an empty list.
AlignLength(data, not_align) ==
    LET ks == AlignedKeys(data, not_align)
    IN  IF Len(ks) = 0 THEN -1
        ELSE SeqMin([i \in 1..Len(ks) |-> PyLen(data.val[ks[i]])])

\* int(length * 0.2) and int(length * 0.8)
MaskMax(length) == length \div 5
CropMin(length) == (4 * length) \div 5

\* A mask written from its first row to the end of the array.
ZeroSpan_ToEnd(v, b, e) ==
    [v EXCEPT !.data = [i \in 1..Len(v.data) |-> IF i > b THEN 0 ELSE v.data[i]]]

\* value[b:e] = 0 on an array; a tuple or a str does not support it.
ZeroSpan(v, b, e) ==
    [v EXCEPT !.data = [i \in 1..Len(v.data) |-> IF i > b /\ i <= e THEN 0 ELSE v.data[i]]]

\* The body of the loop over data.items() for one aligned value, already
\* truncated to t: mask, crop.
MaskCrop(t, masking, mb, me, cropping, cb, ce) ==
    IF masking /\ t.kind # "ndarray" THEN Fail("TypeError")
    ELSE IF masking
    THEN Ok(IF cropping THEN PySlice(ZeroSpan(t, mb, me), cb, ce) ELSE ZeroSpan(t, mb, me))
    ELSE Ok(IF cropping THEN PySlice(t, cb, ce) ELSE t)

AlignValue(v, length, masking, mb, me, cropping, cb, ce) ==
    MaskCrop(PySlice(v, 0, length), masking, mb, me, cropping, cb, ce)

RECURSIVE AlignLoop(_, _, _, _, _, _, _, _, _, _)
AlignStep(data, ks, i, not_align, length, masking, mb, me, cropping, span, r) ==
    IF r.err # "" THEN [err |-> r.err, data |-> data]
    ELSE AlignLoop(DictSet(data, ks[i], r.val), ks, i + 1, not_align, length,
                   masking, mb, me, cropping, span)

AlignLoop(data, ks, i, not_align, length, masking, mb, me, cropping, span) ==
    IF i > Len(ks) THEN [err |-> "", data |-> data]
    ELSE IF ks[i] \in not_align
    THEN AlignLoop(data, ks, i + 1, not_align, length, masking, mb, me, cropping, span)
    ELSE AlignStep(data, ks, i, not_align, length, masking, mb, me, cropping, span,
                   AlignValue(data.val[ks[i]], length, masking, mb, me,
                              cropping, span[1], span[2]))

\* The aligned keys the loop reaches: those up to the first whose value the
\* mask cannot be written to.
Reached(data, ks) ==
    {i \in 1..Len(ks) : \A j \in 1..(i - 1) : data.val[ks[j]].kind = "ndarray"}

\* data[key] = data[key][:length] is a view of the array, so the mask
\* data[key][mask_index_begin:mask_index_end] = 0 is written to the array it
\* is a view of: the rows written in arrays that in-memory loaders hold, for
\* the values that are still the loaders' own arrays.
MaskWrites(ld, uid, loaded, data, not_align, length, mb, me) ==
    LET ks == AlignedKeys(data, not_align)
    IN  {<<ks[i], uid, r>> : i \in Reached(data, ks), r \in (mb + 1)..me} \cap
        {<<x, uid, r>> : x \in {y \in DOMAIN loaded.val :
                                  /\ InMemory(LoaderOf(ld, y))
                                  /\ data.val[y].kind = "ndarray"
                                  /\ data.val[y] = loaded.val[y]},
                          r \in 1..length}

\* data["pitch_aug"] and data["time_aug"]: time_aug_factor is the int 1
\* outside training and a float drawn from _time_list in training.
AttachAug(data, pitch, time, training) ==
    DictSet(DictSet(data, "pitch_aug", PyArr("int64", <<pitch>>)),
            "time_aug", PyArr(IF training THEN "float64" ELSE "int64", <<time>>))

\* Step 3, force data-precision, for one value.
CastValue(v, float_dtype, int_dtype) ==
    IF v.kind \notin {"ndarray", "tuple"} THEN Fail("RuntimeError")
    ELSE IF v.kind = "tuple" THEN Ok(v)
    ELSE IF DKind(v.dtype) = "f" THEN Ok([v EXCEPT !.dtype = float_dtype])
    ELSE IF DKind(v.dtype) = "i" THEN Ok([v EXCEPT !.dtype = int_dtype])
    ELSE Fail("NotImplementedError")

RECURSIVE CastLoop(_, _, _, _)
CastStep(data, i, float_dtype, int_dtype, r) ==
    IF r.err # "" THEN [err |-> r.err, data |-> data]
    ELSE CastLoop(DictSet(data, data.keys[i], r.val), i + 1, float_dtype, int_dtype)

CastLoop(data, i, float_dtype, int_dtype) ==
    IF i > Len(data.keys) THEN [err |-> "", data |-> data]
    ELSE CastStep(data, i, float_dtype, int_dtype,
                  CastValue(data.val[data.keys[i]], float_dtype, int_dtype))

\* ------------------------------------------------------------------ cache
\* SizedDict: the size it tracks grows by the size of each key and value
\* stored: here one unit per key and one per row held.
RECURSIVE RowsHeld(_)
RowsHeld(v) ==
    IF v.kind = "tuple"
    THEN IF Len(v.items) = 0 THEN 0
         ELSE RowsHeld(v.items[1]) + RowsHeld([v EXCEPT !.items = Tail(v.items)])
    ELSE Len(v.data) + Len(v.chars)

RECURSIVE DictSizeFrom(_, _)
DictSizeFrom(data, i) ==
    IF i > Len(data.keys) THEN 0
    ELSE 1 + RowsHeld(data.val[data.keys[i]]) + DictSizeFrom(data, i + 1)

SizedDictGrowth(uid, data) == 1 + DictSizeFrom(data, 1)

\* if self.cache is not None and uid in self.cache
CacheHit(hasCache, cch, uid) == hasCache /\ uid \in DOMAIN cch

\* A cache that admits its first record only.
Admits_First(hasCache, size, max_cache_size) == hasCache /\ size = 0

\* A cache that admits whatever its size.
Admits_Always(hasCache, size, max_cache_size) == hasCache

\* if self.cache is not None and self.cache.size < self.max_cache_size
Admits(hasCache, size, max_cache_size) == hasCache /\ size < max_cache_size

\* A hit that answers with the record cached first, whatever the id.
HitRecord_Any(cch, uid) == cch[CHOOSE x \in DOMAIN cch : TRUE]

\* data = self.cache[uid] on a hit
HitRecord(cch, uid) == cch[uid]

\* A cache that keeps the record without the factors attached in the end.
Stored_Early(data) ==
    [keys |-> SelectSeq(data.keys, LAMBDA x : x \notin {"pitch_aug", "time_aug"}),
     val |-> [x \in (DOMAIN data.val) \ {"pitch_aug", "time_aug"} |-> data.val[x]]]

\* What self.cache[uid] = data stores.
Stored(data) == data

\* A cache that keeps the latest record only.
CachePut_OnlyLatest(cch, uid, data) == [x \in {uid} |-> Stored(data)]

CachePut(cch, uid, data) ==
    [x \in (DOMAIN cch) \cup {uid} |-> IF x = uid THEN Stored(data) ELSE cch[x]]

\* ------------------------------------------------------------ declarations
Decl(path, name, type) == [path |-> path, name |-> name, type |-> type]

T_soundx == K_sound \o <<"x">>
T_text_foo == K_text \o <<"_", "f", "o", "o">>
T_wav == <<"w", "a", "v">>
T_rand_int_0_1 == K_rand_int_prefix \o <<"0", "_", "1">>
T_rand_int_0_1x == K_rand_int_prefix \o <<"0", "_", "1", "x">>
T_rand_int_0 == K_rand_int_prefix \o <<"0">>

D_scenario == <<Decl("wav.scp", "input", K_sound), Decl("label", "output", K_duration)>>
D_svs ==
    <<Decl("text", "text", K_text), Decl("wav.scp", "singing", K_sound),
      Decl("midi.scp", "midi", K_midi), Decl("label", "label", K_duration)>>
D_plain == <<Decl("feats.scp", "feats", K_npy), Decl("token_int", "output", K_text_int)>>
D_midi_feats == <<Decl("midi.scp", "midi", K_midi), Decl("feats.scp", "feats", K_npy)>>
D_dup == <<Decl("feats.scp", "input", K_npy), Decl("token_int", "input", K_text_int)>>
D_dup_unmatched == <<Decl("feats.scp", "input", K_npy), Decl("token_int", "input", T_wav)>>
D_empty == <<Decl("feats.scp", "feats", K_npy), Decl("empty.scp", "aux", K_npy)>>
D_none == <<>>
D_prefix == <<Decl("wav.scp", "singing", T_soundx), Decl("text", "text", T_text_foo)>>
D_unmatched == <<Decl("feats.scp", "feats", T_wav)>>
D_rand == <<Decl("shape", "noise", K_rand_float), Decl("feats.scp", "feats", K_npy)>>
D_randint == <<Decl("shape", "noise", T_rand_int_0_1), Decl("token_int", "output", K_text_int)>>
D_randint_bad == <<Decl("feats.scp", "feats", K_npy), Decl("shape", "noise", T_rand_int_0_1x)>>
D_randint_short == <<Decl("shape", "noise", T_rand_int_0)>>
D_text_only == <<Decl("text", "text", K_text)>>
D_long == <<Decl("long_int", "output", K_text_int), Decl("long.npy", "feats", K_npy)>>
D_rev == <<Decl("wav_rev.scp", "singing", K_sound)>>
D_spk == <<Decl("midi_spk.scp", "midi", K_midi)>>
D_label == <<Decl("label", "label", K_duration), Decl("feats.scp", "feats", K_npy)>>

DeclChoices ==
    {D_scenario, D_svs, D_plain, D_midi_feats, D_dup, D_dup_unmatched, D_empty, D_none,
     D_prefix, D_unmatched, D_rand, D_randint, D_randint_bad, D_randint_short,
     D_text_only, D_rev}

\* pitch_mean: the string "None", or one that evaluates to a float or to a list
\* of floats (the values in hundredths).
PitchMeanNone == [kind |-> "None", vals |-> <<>>]
PitchMeanOf(kind, vals) == [kind |-> kind, vals |-> vals]

\* The constructor's arguments. float_dtype, int_dtype and not_align keep
\* their defaults.
Config(decl, mode, size, pp, crop, mask, pmin, pmax, tmin, tmax) ==
    [decl |-> decl, preprocess |-> pp, float_dtype |-> "float32", int_dtype |-> "long",
     max_cache_size |-> size, not_align |-> {"text"}, mode |-> mode,
     pitch_aug_min |-> pmin, pitch_aug_max |-> pmax, pitch_mean |-> PitchMeanNone,
     time_aug_min |-> tmin, time_aug_max |-> tmax,
     random_crop |-> crop, mask_aug |-> mask]

\* A budget the first record stored exhausts, and one nothing exhausts.
SmallBudget == 1
LargeBudget == 1000

ValidConfigs ==
    {Config(d, "valid", size, pp, TRUE, TRUE, -1, 1, Hundred, Hundred + 1) :
        d \in DeclChoices, size \in {0, SmallBudget, LargeBudget},
        pp \in {"None", "CommonPreprocessor"}}
    \cup
    {Config(D_label, "valid", 0, "None", TRUE, TRUE, -1, 1, Hundred, Hundred + 1)}

TrainDeclChoices == {D_svs, D_plain}

TrainConfigs ==
    {Config(d, "train", 0, pp, aug, aug, -1, 1, Hundred, Hundred + 1) :
        d \in TrainDeclChoices, pp \in {"None", "CommonPreprocessor"}, aug \in BOOLEAN}
    \cup
    {Config(D_plain, "train", LargeBudget, "None", FALSE, FALSE, 0, 1, Hundred, Hundred),
     Config(D_long, "train", 0, "None", FALSE, TRUE, 0, 0, Hundred, Hundred),
     Config(D_midi_feats, "train", 0, "None", TRUE, FALSE, 0, 0, Hundred, Hundred),
     Config(D_plain, "train", 0, "None", FALSE, FALSE, 0, 0, 29, 29)}

\* Training towards a target pitch mean: one target above and one below the
\* notes on file, a target per singer, and a target written as an int.
PitchMeanConfigs ==
    {[Config(D_svs, "train", 0, "CommonPreprocessor", FALSE, FALSE, 0, 0, Hundred, Hundred)
         EXCEPT !.pitch_mean = PitchMeanOf("float", <<t>>)] :
        t \in {23 * Hundred, 20 * Hundred}}
    \cup
    {[Config(D_spk, "train", LargeBudget, "None", FALSE, FALSE, 0, 0, Hundred, Hundred)
         EXCEPT !.pitch_mean =
            PitchMeanOf("list", <<23 * Hundred, 20 * Hundred, 23 * Hundred, 20 * Hundred>>)],
     [Config(D_spk, "train", 0, "None", FALSE, FALSE, 0, 0, Hundred, Hundred)
         EXCEPT !.pitch_mean = PitchMeanOf("int", <<23 * Hundred>>)]}

Configs == ValidConfigs \cup TrainConfigs \cup PitchMeanConfigs

\* --------------------------------------------------------------- sampling
speaker_lst ==
    << <<"o", "n", "i", "k", "u">>, <<"o", "f", "u", "t", "o", "n">>,
       <<"k", "i", "r", "i", "t", "a", "n">>, <<"n", "a", "t", "s", "u", "m", "e">> >>

\* sub in s for two strs
IsSubstring(sub, s) ==
    \E j \in 0..(Len(s) - Len(sub)) : \A m \in 1..Len(sub) : s[j + m] = sub[m]

RECURSIVE SeqSum(_)
SeqSum(q) == IF Len(q) = 0 THEN 0 ELSE Head(q) + SeqSum(Tail(q))

\* A conversion that rounds down.
TruncDiv_Floor(num, den) == num \div den

\* int(x) for the fraction num / den with den > 0: truncation towards zero.
TruncDiv(num, den) == IF num >= 0 THEN num \div den ELSE -((-num) \div den)

\* The utterance's own mean against the target, both as fractions:
\* int(global_pitch_mean - sample_pitch_mean)
PitchGap(target, notes) ==
    TruncDiv(target * Len(notes) - Hundred * SeqSum(notes), Hundred * Len(notes))

\* A search that stops at the first tag found.
SpeakerMatches_First(uid) ==
    {i \in 1..Len(speaker_lst) :
        /\ IsSubstring(speaker_lst[i], uid)
        /\ \A j \in 1..(i - 1) : ~IsSubstring(speaker_lst[j], uid)}

SpeakerMatches(uid) == {i \in 1..Len(speaker_lst) : IsSubstring(speaker_lst[i], uid)}

NoDraw(e, rate, q) == [err |-> e, lst |-> {}, rate |-> rate, qlog |-> q]

GapList(gap) == IF gap < 0 THEN gap..0 ELSE 0..gap

\* The pitch-mean branch once loader["midi"][(uid, 0, 1)] gave r: the error it
\* raises, or the list the factor is drawn from.
PitchMeanFrom(c, uid, r, q) ==
    IF r.err # "" THEN NoDraw(r.err, r.rate, Missed(q))
    ELSE IF PyLen(r.val) # 2 THEN NoDraw("ValueError", r.rate, q)
    ELSE IF c.pitch_mean.kind = "list" /\ Cardinality(SpeakerMatches(uid)) # 1
    THEN NoDraw("AssertionError", r.rate, q)
    ELSE IF c.pitch_mean.kind \notin {"float", "list"} THEN NoDraw("NameError", r.rate, q)
    ELSE [err |-> "",
          lst |-> GapList(PitchGap(
                     IF c.pitch_mean.kind = "float" THEN c.pitch_mean.vals[1]
                     ELSE c.pitch_mean.vals[CHOOSE i \in SpeakerMatches(uid) : TRUE],
                     r.val.items[1].data)),
          rate |-> r.rate, qlog |-> q]

WithRates(d, rate, name) == [d EXCEPT !.rate = [rate EXCEPT ![name] = d.rate]]

PitchMeanDraw(c, ld, seed, rate, uid) ==
    IF ~InLoaderDict(ld, "midi") THEN NoDraw("KeyError", rate, <<>>)
    ELSE WithRates(PitchMeanFrom(c, uid,
                      LoaderGet(LoaderOf(ld, "midi"), seed, rate["midi"],
                                AugKey(uid, 0, 1), 0),
                      <<QueryEntry("midi", AugKey(uid, 0, 1))>>),
                   rate, "midi")

\* Pitch factors drawn from the range without its upper end.
PitchDraw_HalfOpen(c, ld, seed, rate, uid) ==
    [err |-> "", rate |-> rate, qlog |-> <<>>,
     lst |-> IF c.mode = "train" THEN c.pitch_aug_min..(c.pitch_aug_max - 1) ELSE {0}]

\* Pitch factors drawn from the configured range whatever the mode.
PitchDraw_AnyMode(c, ld, seed, rate, uid) ==
    [err |-> "", lst |-> c.pitch_aug_min..c.pitch_aug_max, rate |-> rate, qlog |-> <<>>]

\* The pitch factors __getitem__ may draw.
PitchDraw(c, ld, seed, rate, uid) ==
    IF c.mode = "train"
    THEN IF c.pitch_mean.kind # "None" THEN PitchMeanDraw(c, ld, seed, rate, uid)
         ELSE [err |-> "", lst |-> c.pitch_aug_min..c.pitch_aug_max,
               rate |-> rate, qlog |-> <<>>]
    ELSE [err |-> "", lst |-> {0}, rate |-> rate, qlog |-> <<>>]

\* The factors x = k / 100, k in 0..200, whose product x * 100 in double
\* precision lies just below k (0.29 * 100 is 28.999999999999996), so that
\* int(x * 100) is k - 1 and int(x * 100 + 1) is k.
RoundsBelow == {29, 57, 58, 113, 114, 115, 116}

\* int(x * 100) for the factor x written in hundredths
IntTimes100(k) == IF k \in RoundsBelow THEN k - 1 ELSE k

\* The time factors it may draw, in hundredths: _time_list, i / 100 for i in
\* range(int(time_aug_min * 100), int(time_aug_max * 100 + 1)).
TimeDraw(c) ==
    IF c.mode = "train"
    THEN IntTimes100(c.time_aug_min)..((IntTimes100(c.time_aug_max) + 1) - 1)
    ELSE {Hundred}

Masking(c) == c.mode = "train" /\ c.mask_aug
Cropping(c) == c.mode = "train" /\ c.random_crop

\* The values a random reader fills its arrays with.
RandVals == {0, 1}

\* ------------------------------------------------------------------ state
VARIABLES
    cfg,          \* the constructor's arguments
    seed,         \* selects the lengths of the entries on disk
    status,       \* "new" before __init__ ran, then "ok" or "failed"
    ctor_err,     \* the error __init__ raised, "" when none
    loader_dict,  \* self.loader_dict, in insertion order
    built,        \* the declarations _build_loader was called for
    has_cache,    \* self.cache is not None
    cache,        \* self.cache: id -> record
    csize,        \* self.cache.size
    rate,         \* the rate each loader's adapter remembers (0: None)
    ret,          \* the last call and what it returned or raised
    qlog,         \* the loader queries of the last __getitem__ call
    first,        \* outside training: the first record returned for each id,
                  \* and whether the id was returned again since
    held,         \* the rows written to zero in the arrays the in-memory
                  \* loaders hold: (loader name, id, row)
    wpc,          \* of each worker process: the ids it fetches, the one it is
                  \* at, the line of __getitem__ it stands before, the ids it
                  \* inserted and the error it raised
    wrec          \* of each worker process: the record returned for each id

vars == <<cfg, seed, status, ctor_err, loader_dict, built, has_cache, cache, csize,
          rate, ret, qlog, first, held, wpc, wrec>>

\* The worker processes of a data loader that share the dataset's cache.
Workers == {1, 2}

WorkerAt(plan, i, at) == [plan |-> plan, i |-> i, at |-> at, ins |-> {}, err |-> ""]

\* What is kept of a call: the operation and its argument, the error raised
\* or the record returned, whether the cache answered, the ids an iteration
\* yielded, and of a record freshly assembled the leading lengths its values
\* had before the alignment and the crop window drawn (-1: none), the steps
\* of __getitem__ the call went through, the pitch factors it drew from, the
\* data as the alignment loop received it with the aligned length and the
\* mask and crop spans drawn (len, mb, me, cb, ce), and whether logging.error
\* was called.
NoSpan == [len |-> -1, mb |-> 0, me |-> 0, cb |-> 0, ce |-> 0]

NoCall ==
    [op |-> "none", uid |-> <<>>, index |-> <<>>, err |-> "", hit |-> FALSE,
     data |-> EmptyDict, ids |-> <<>>, raw |-> <<>>, win |-> -1, did |-> {},
     pool |-> {}, pre |-> EmptyDict, span |-> NoSpan, logged |-> FALSE]

\* The entries of the files of D_long have one length whatever the seed.
Init ==
    /\ cfg \in Configs
    /\ seed \in (IF cfg.decl = D_long THEN {0} ELSE 0..(MaxLen - 1))
    /\ status = "new"
    /\ ctor_err = ""
    /\ loader_dict = <<>>
    /\ built = <<>>
    /\ has_cache = FALSE
    /\ cache = <<>>
    /\ csize = 0
    /\ rate = <<>>
    /\ ret = NoCall
    /\ qlog = <<>>
    /\ first = <<>>
    /\ held = {}
    /\ wpc = [w \in Workers |-> WorkerAt(<<>>, 1, "done")]
    /\ wrec = [w \in Workers |-> <<>>]

\* MuskitDataset(path_name_type_list, ...)
Construct ==
    /\ status = "new"
    /\ LET r == DatasetInit(cfg)
       IN  /\ status' = IF r.err = "" THEN "ok" ELSE "failed"
           /\ ctor_err' = r.err
           /\ loader_dict' = r.ld
           /\ built' = r.built
           /\ has_cache' = r.has_cache
           /\ rate' = [n \in {r.ld[i].name : i \in 1..Len(r.ld)} |-> 0]
    /\ UNCHANGED <<cfg, seed, cache, csize, ret, qlog, first, held, wpc, wrec>>

\* The tail of __getitem__ once the data is loaded and the spans are drawn:
\* align, attach the factors, cast.
Assemble(c, data, pitch, time, length, mb, me, cb, ce) ==
    LET a == AlignLoop(data, data.keys, 1, c.not_align, length, Masking(c), mb, me,
                       Cropping(c), <<cb, ce>>)
    IN  IF a.err # "" THEN a
        ELSE CastLoop(AttachAug(a.data, pitch, time, c.mode = "train"), 1,
                      c.float_dtype, c.int_dtype)

Raised(op, uid, index, err) ==
    [op |-> op, uid |-> uid, index |-> index, err |-> err, hit |-> FALSE,
     data |-> EmptyDict, ids |-> <<>>, raw |-> <<>>, win |-> -1, did |-> {},
     pool |-> {}, pre |-> EmptyDict, span |-> NoSpan, logged |-> FALSE]

Returned(uid, index, data, hit) ==
    [op |-> "getitem", uid |-> uid, index |-> index, err |-> "", hit |-> hit,
     data |-> data, ids |-> <<>>, raw |-> <<>>, win |-> -1, did |-> {},
     pool |-> {}, pre |-> EmptyDict, span |-> NoSpan, logged |-> FALSE]

\* The steps a call that missed the cache goes through before the alignment.
StepsDone(c) ==
    {"load"} \cup (IF c.mode = "train" THEN {"sample"} ELSE {})
             \cup (IF c.preprocess # "None" THEN {"preprocess"} ELSE {})

\* The length of a value along time: the rows of an array, and of a pair of
\* arrays the rows of its arrays.
TimeLen(v) ==
    IF v.kind = "tuple" THEN (IF Len(v.items) = 0 THEN 0 ELSE PyLen(v.items[1]))
    ELSE PyLen(v)

RawLens(data) == [x \in DOMAIN data.val |-> TimeLen(data.val[x])]

Remember(uid, data) ==
    IF cfg.mode = "train" THEN first
    ELSE IF uid \in DOMAIN first THEN [first EXCEPT ![uid].again = TRUE]
    ELSE [x \in (DOMAIN first) \cup {uid} |->
            IF x = uid THEN [data |-> data, again |-> FALSE] ELSE first[x]]

\* The end of __getitem__: the record is admitted to the cache and returned.
Finish(uid, index, r, pre, span, pool) ==
    IF r.err # ""
    THEN /\ ret' = [Raised("getitem", uid, index, r.err) EXCEPT !.did = StepsDone(cfg)]
         /\ UNCHANGED <<cache, csize, first>>
    ELSE /\ ret' = [Returned(uid, index, r.data, FALSE) EXCEPT
                        !.raw = RawLens(pre),
                        !.win = IF Cropping(cfg) THEN span.ce - span.cb ELSE -1,
                        !.did = StepsDone(cfg), !.pool = pool,
                        !.pre = pre, !.span = span]
         /\ first' = Remember(uid, r.data)
         /\ IF Admits(has_cache, csize, cfg.max_cache_size)
            THEN /\ cache' = CachePut(cache, uid, r.data)
                 /\ csize' = csize + SizedDictGrowth(uid, r.data)
            ELSE UNCHANGED <<cache, csize>>

\* The draws of the mask and crop spans for the aligned length, and the rest.
DrawSpans(uid, index, loaded, data, pitch, time, length, pool) ==
    \E ml \in (IF Masking(cfg) THEN 0..MaskMax(length) ELSE {0}),
       cl \in (IF Cropping(cfg) THEN CropMin(length)..length ELSE {length}) :
      \E mb \in (IF Masking(cfg) /\ length - ml > 0 THEN 0..(length - ml) ELSE {0}),
         cb \in (IF Cropping(cfg) THEN 0..(length - cl) ELSE {0}) :
        \E me \in {IF length - ml > 0 THEN mb + ml ELSE length} :
          \E r \in {Assemble(cfg, data, pitch, time, length, mb, me, cb, cb + cl)} :
            /\ Finish(uid, index, r, data,
                      [len |-> length, mb |-> mb, me |-> me, cb |-> cb, ce |-> cb + cl],
                      pool)
            /\ held' = IF Masking(cfg)
                       THEN held \cup MaskWrites(loader_dict, uid, loaded, data,
                                                 cfg.not_align, length, mb, me)
                       ELSE held

\* Step 2 and the alignment length, for the data the loaders gave.
AfterLoad(uid, index, l, pitch, time, pool) ==
    /\ qlog' = l.qlog
    /\ rate' = l.rate
    /\ IF l.err # ""
       THEN /\ ret' = [Raised("getitem", uid, index, l.err) EXCEPT
                           !.did = StepsDone(cfg) \ {"preprocess"}, !.logged = TRUE]
            /\ UNCHANGED <<cache, csize, first, held>>
       ELSE \E data \in {IF cfg.preprocess # "None" THEN Preprocess(uid, l.data, time)
                         ELSE l.data} :
              \E length \in {AlignLength(data, cfg.not_align)} :
                IF length < 0
                THEN /\ ret' = [Raised("getitem", uid, index, "ValueError") EXCEPT
                                    !.did = StepsDone(cfg)]
                     /\ UNCHANGED <<cache, csize, first, held>>
                ELSE DrawSpans(uid, index, l.data, data, pitch, time, length, pool)

\* Whether a value is drawn at random by some loader.
HasRandomLoader(ld) ==
    \E i \in 1..Len(ld) : ld[i].func \in {"FloatRandomGenerateDataset", "rand_int_loader"}

\* dataset[uid] for a str uid (index = <<>>) or for the uid the int index <<i>>
\* resolved to.
GetItemBody(uid, index) ==
    IF CacheHit(has_cache, cache, uid)
    THEN /\ ret' = Returned(uid, index, HitRecord(cache, uid), TRUE)
         /\ qlog' = <<>>
         /\ first' = Remember(uid, HitRecord(cache, uid))
         /\ UNCHANGED <<cache, csize, rate, held>>
    ELSE \E pd \in {PitchDraw(cfg, loader_dict, seed, rate, uid)} :
           IF pd.err # ""
           THEN /\ ret' = Raised("getitem", uid, index, pd.err)
                /\ qlog' = pd.qlog
                /\ rate' = pd.rate
                /\ UNCHANGED <<cache, csize, first, held>>
           ELSE \E pitch \in pd.lst, time \in TimeDraw(cfg),
                   rnd \in (IF HasRandomLoader(loader_dict) THEN RandVals ELSE {0}) :
                  \E l \in {WithHeld(LoadLoop(loader_dict, 1, seed, uid, pitch, rnd,
                                              EmptyDict, pd.rate, pd.qlog),
                                     loader_dict, held, uid)} :
                    AfterLoad(uid, index, l, pitch, time, pd.lst)

\* get_record with a str id
GetItem(uid) ==
    /\ status = "ok"
    /\ GetItemBody(uid, <<>>)
    /\ UNCHANGED <<cfg, seed, status, ctor_err, loader_dict, built, has_cache, wpc, wrec>>

\* An int index resolved in the last loader instead of the first.
FirstLoaderIds_LastLoader == Files[loader_dict[Len(loader_dict)].path].ids

\* uid = list(d)[uid] for an int uid, d the first loader
FirstLoaderIds == Files[loader_dict[1].path].ids

\* get_record with an int index
GetItemAt(i) ==
    /\ status = "ok"
    /\ LET ids == FirstLoaderIds
           j == IF i < 0 THEN i + Len(ids) ELSE i
       IN  IF j < 0 \/ j >= Len(ids)
           THEN /\ ret' = Raised("getitem", <<>>, <<i>>, "IndexError")
                /\ qlog' = <<>>
                /\ UNCHANGED <<cache, csize, rate, first, held>>
           ELSE GetItemBody(ids[j + 1], <<i>>)
    /\ UNCHANGED <<cfg, seed, status, ctor_err, loader_dict, built, has_cache, wpc, wrec>>

\* The methods each class of the dataset's hierarchy defines.
MuskitDatasetMethods ==
    {"__init__", "_build_loader", "has_name", "names", "__iter__", "__repr__",
     "__getitem__"}
AbsDatasetMethods == {"has_name", "names", "__getitem__"}
DatasetMethods == MuskitDatasetMethods \cup AbsDatasetMethods

\* len(dataset): the number a __len__ of the hierarchy returns, or the
\* TypeError of an object that has none.
DatasetLen ==
    IF "__len__" \in DatasetMethods
    THEN [err |-> "", n |-> LoaderLen(loader_dict[1])]
    ELSE [err |-> "TypeError", n |-> 0]

LenCall ==
    /\ status = "ok"
    /\ ret' = [Raised("len", <<>>, <<>>, DatasetLen.err) EXCEPT !.ids = <<DatasetLen.n>>]
    /\ qlog' = <<>>
    /\ UNCHANGED <<cfg, seed, status, ctor_err, loader_dict, built, has_cache, cache,
                   csize, rate, first, held, wpc, wrec>>

\* An iteration that skips the ids the cache holds.
DatasetIter_Uncached == SelectSeq(FirstLoaderIds, LAMBDA u : u \notin DOMAIN cache)

\* An iteration over the last loader instead of the first.
DatasetIter_LastLoader == Files[loader_dict[Len(loader_dict)].path].ids

\* __iter__: iter(next(iter(self.loader_dict.values())))
DatasetIter == FirstLoaderIds

IterCall ==
    /\ status = "ok"
    /\ ret' = [Raised("iter", <<>>, <<>>, "") EXCEPT !.ids = DatasetIter]
    /\ qlog' = <<>>
    /\ UNCHANGED <<cfg, seed, status, ctor_err, loader_dict, built, has_cache, cache,
                   csize, rate, first, held, wpc, wrec>>

\* The int indices tried: the last entry, the first, and one past three
\* entries.
IndexChoices == {-1, 0, Cardinality(Ids)}

\* The ids asked for: the three ids, and those of the first file declared.
CallIds ==
    Ids \cup (IF Len(cfg.decl) = 0 THEN {}
              ELSE {Files[cfg.decl[1].path].ids[i] :
                       i \in 1..Len(Files[cfg.decl[1].path].ids)})

Next ==
    \/ Construct
    \/ \E uid \in CallIds : GetItem(uid)
    \/ \E i \in IndexChoices : GetItemAt(i)
    \/ LenCall
    \/ IterCall

Spec == Init /\ [][Next]_vars

\* ------------------------------------------------- workers sharing the cache
\* A dataset with a cache (a SizedDict made with shared=True) handed to two
\* worker processes: each has its own copy of the dataset and its loaders,
\* and all reach the one cache. Each worker fetches the ids of its plan in
\* order; a step of a worker is one access of the cache, or the work between
\* two accesses.
SharedConfigs ==
    {Config(d, "valid", size, "None", TRUE, TRUE, -1, 1, Hundred, Hundred + 1) :
        d \in {D_plain, D_rand, D_midi_feats}, size \in {SmallBudget, LargeBudget}}
    \cup
    {Config(D_svs, "valid", LargeBudget, "CommonPreprocessor", TRUE, TRUE, -1, 1,
            Hundred, Hundred + 1),
     Config(D_plain, "train", LargeBudget, "None", TRUE, FALSE, 0, 1, Hundred, Hundred)}

\* The ids the two workers are asked for, the same for both.
Plans == {<<U1>>, <<U2, U1>>}

InitShared ==
    /\ cfg \in SharedConfigs
    /\ seed \in 0..(MaxLen - 1)
    /\ status = "ok"
    /\ ctor_err = ""
    /\ loader_dict = DatasetInit(cfg).ld
    /\ built = DatasetInit(cfg).built
    /\ has_cache = DatasetInit(cfg).has_cache
    /\ cache = <<>>
    /\ csize = 0
    /\ rate = [n \in {DatasetInit(cfg).ld[i].name : i \in 1..Len(DatasetInit(cfg).ld)} |-> 0]
    /\ ret = NoCall
    /\ qlog = <<>>
    /\ first = <<>>
    /\ held = {}
    /\ \E plan \in Plans : wpc = [w \in Workers |-> WorkerAt(plan, 1, "check")]
    /\ wrec = [w \in Workers |-> <<>>]

WorkerUid(w) == wpc[w].plan[wpc[w].i]

\* The records a worker holds, with data for uid.
WithRecord(recs, uid, data) ==
    [x \in (DOMAIN recs) \cup {uid} |-> IF x = uid THEN data ELSE recs[x]]

\* The worker returns data for the id it is at and goes on to its next id.
WorkerReturns(w, data) ==
    /\ wrec' = [wrec EXCEPT ![w] = WithRecord(wrec[w], WorkerUid(w), data)]
    /\ wpc' = [wpc EXCEPT ![w].at = IF wpc[w].i < Len(wpc[w].plan) THEN "check" ELSE "done",
                          ![w].i = IF wpc[w].i < Len(wpc[w].plan) THEN @ + 1 ELSE @]

WorkerRaises(w, err) ==
    /\ wpc' = [wpc EXCEPT ![w].at = "done", ![w].err = err]
    /\ UNCHANGED wrec

\* if self.cache is not None and uid in self.cache: return uid, self.cache[uid]
WorkerCheck(w) ==
    /\ wpc[w].at = "check"
    /\ IF CacheHit(has_cache, cache, WorkerUid(w))
       THEN WorkerReturns(w, HitRecord(cache, WorkerUid(w)))
       ELSE wpc' = [wpc EXCEPT ![w].at = "load"] /\ UNCHANGED wrec
    /\ UNCHANGED <<cfg, seed, status, ctor_err, loader_dict, built, has_cache, cache,
                   csize, rate, ret, qlog, first, held>>

\* The record assembled from what the worker's loaders gave, kept until the
\* worker reaches the cache again.
WorkerAssemble(w, l, pitch, time) ==
    IF l.err # "" THEN WorkerRaises(w, l.err)
    ELSE \E data \in {IF cfg.preprocess # "None"
                       THEN Preprocess(WorkerUid(w), l.data, time) ELSE l.data} :
           \E length \in {AlignLength(data, cfg.not_align)} :
             IF length < 0 THEN WorkerRaises(w, "ValueError")
             ELSE \E ml \in (IF Masking(cfg) THEN 0..MaskMax(length) ELSE {0}),
                     cl \in (IF Cropping(cfg) THEN CropMin(length)..length ELSE {length}) :
                    \E mb \in (IF Masking(cfg) /\ length - ml > 0
                                THEN 0..(length - ml) ELSE {0}),
                       cb \in (IF Cropping(cfg) THEN 0..(length - cl) ELSE {0}) :
                      \E r \in {Assemble(cfg, data, pitch, time, length, mb,
                                         IF length - ml > 0 THEN mb + ml ELSE length,
                                         cb, cb + cl)} :
                        IF r.err # "" THEN WorkerRaises(w, r.err)
                        ELSE /\ wrec' = [wrec EXCEPT ![w] =
                                            WithRecord(wrec[w], WorkerUid(w), r.data)]
                             /\ wpc' = [wpc EXCEPT ![w].at = "admit"]

\* The miss path of __getitem__ up to the record, in the worker's own copy
\* of the dataset.
WorkerLoad(w) ==
    /\ wpc[w].at = "load"
    /\ \E pd \in {PitchDraw(cfg, loader_dict, seed, rate, WorkerUid(w))} :
         IF pd.err # "" THEN WorkerRaises(w, pd.err)
         ELSE \E pitch \in pd.lst, time \in TimeDraw(cfg),
                 rnd \in (IF HasRandomLoader(loader_dict) THEN RandVals ELSE {0}) :
                \E l \in {LoadLoop(loader_dict, 1, seed, WorkerUid(w), pitch, rnd,
                                   EmptyDict, pd.rate, pd.qlog)} :
                  WorkerAssemble(w, l, pitch, time)
    /\ UNCHANGED <<cfg, seed, status, ctor_err, loader_dict, built, has_cache, cache,
                   csize, rate, ret, qlog, first, held>>

\* if self.cache is not None and self.cache.size < self.max_cache_size
WorkerAdmit(w) ==
    /\ wpc[w].at = "admit"
    /\ IF Admits(has_cache, csize, cfg.max_cache_size)
       THEN wpc' = [wpc EXCEPT ![w].at = "insert"] /\ UNCHANGED wrec
       ELSE WorkerReturns(w, wrec[w][WorkerUid(w)])
    /\ UNCHANGED <<cfg, seed, status, ctor_err, loader_dict, built, has_cache, cache,
                   csize, rate, ret, qlog, first, held>>

\* SizedDict.__setitem__ for a key it may hold already: the size of the value
\* replaced is taken off the size.
SizeAfterPut(cch, size, uid, data) ==
    IF uid \in DOMAIN cch
    THEN (size - SizedDictGrowth(uid, cch[uid])) + SizedDictGrowth(uid, data)
    ELSE size + SizedDictGrowth(uid, data)

\* self.cache[uid] = data, and the return
WorkerInsert(w) ==
    /\ wpc[w].at = "insert"
    /\ cache' = CachePut(cache, WorkerUid(w), wrec[w][WorkerUid(w)])
    /\ csize' = SizeAfterPut(cache, csize, WorkerUid(w), wrec[w][WorkerUid(w)])
    /\ wrec' = wrec
    /\ wpc' = [wpc EXCEPT ![w].at = IF wpc[w].i < Len(wpc[w].plan) THEN "check" ELSE "done",
                          ![w].i = IF wpc[w].i < Len(wpc[w].plan) THEN @ + 1 ELSE @,
                          ![w].ins = @ \cup {WorkerUid(w)}]
    /\ UNCHANGED <<cfg, seed, status, ctor_err, loader_dict, built, has_cache,
                   rate, ret, qlog, first, held>>

NextShared ==
    \/ \E w \in Workers : WorkerCheck(w)
    \/ \E w \in Workers : WorkerLoad(w)
    \/ \E w \in Workers : WorkerAdmit(w)
    \/ \E w \in Workers : WorkerInsert(w)

SpecShared == InitShared /\ [][NextShared]_vars

\* ------------------------------------------------------------------ claims
\* A call of get_record that returned a record.
ReturnedRecord == ret.op = "getitem" /\ ret.err = ""

DeclNames(decl) == {decl[i].name : i \in 1..Len(decl)}
Range(q) == {q[i] : i \in 1..Len(q)}

\* C1: the dataset declared with a sound file as "input" and a duration file
\* as "output", in "valid" mode, answers get_record("u1") with a record whose
\* keys are input, output, pitch_aug and time_aug, whose factors are 0 and 1
\* and whose two modalities have the same length.
C1_ScenarioRecord ==
    (cfg.decl = D_scenario /\ cfg.mode = "valid" /\ ret.op = "getitem" /\ ret.uid = U1)
    => /\ ret.err = ""
       /\ KeySet(ret.data) = {"input", "output", "pitch_aug", "time_aug"}
       /\ ret.data.val["pitch_aug"].data = <<0>>
       /\ ret.data.val["time_aug"].data = <<Hundred>>
       /\ TimeLen(ret.data.val["input"]) = TimeLen(ret.data.val["output"])

\* The modalities of the last record that take part in the alignment.
Aligned == {x \in DOMAIN ret.raw : x \notin cfg.not_align}
SetMin(S) == CHOOSE m \in S : \A n \in S : m <= n

\* C2: in every record assembled, each modality not listed in not_align has
\* the same leading length: the crop window's when a crop was drawn, else the
\* least of the lengths the modalities had before the alignment.
C2_CommonLength ==
    (ReturnedRecord /\ ~ret.hit)
    => \A x \in Aligned :
          TimeLen(ret.data.val[x]) =
              IF ret.win >= 0 THEN ret.win ELSE SetMin({ret.raw[y] : y \in Aligned})

\* C3: outside "train" mode every record returned carries pitch_aug 0 and
\* time_aug 1, and every loader of an augmentation-sensitive modality was
\* queried with the pitch factor 0 and the time factor 1.
C3_NoAugOutsideTrain ==
    (cfg.mode # "train" /\ ReturnedRecord)
    => /\ ret.data.val["pitch_aug"].data = <<0>>
       /\ ret.data.val["time_aug"].data = <<Hundred>>
       /\ \A k \in 1..Len(qlog) :
             /\ qlog[k].tuple => (qlog[k].pitch = 0 /\ qlog[k].time = 1)
             /\ IsAugName(qlog[k].name) => qlog[k].tuple

\* A record returned outside training by a call that queried an
\* augmentation-sensitive loader, with a range of factors configured.
C3_Witness ==
    /\ cfg.mode # "train" /\ cfg.pitch_aug_min < 0 /\ cfg.time_aug_max > Hundred
    /\ ReturnedRecord
    /\ \E k \in 1..Len(qlog) : qlog[k].tuple

\* C4 as stated: outside "train" mode two fetches of the same id return the
\* same record, whether or not the cache serves the second.
C4_SameRecordAgain ==
    (cfg.mode # "train" /\ ReturnedRecord /\ ret.uid \in DOMAIN first)
    => ret.data = first[ret.uid].data

\* C4, amended: outside "train" mode, when no declared modality is of a
\* random-generating type, two fetches of the same id return the same record,
\* whether or not the cache serves the second.
C4_SameRecordAgain_NoRandom ==
    (cfg.mode # "train" /\ ~HasRandomLoader(loader_dict) /\ ReturnedRecord
     /\ ret.uid \in DOMAIN first)
    => ret.data = first[ret.uid].data

\* An id fetched again outside training without a random loader, the second
\* time from the cache.
C4_Witness ==
    /\ cfg.mode # "train" /\ ~HasRandomLoader(loader_dict)
    /\ ReturnedRecord /\ ret.hit
    /\ ret.uid \in DOMAIN first /\ first[ret.uid].again

AskedNames ==
    UNION {DeclNames(d) : d \in DeclChoices} \cup {"pitch_aug", "nothing"}

\* C6: once constructed, names() is the tuple of the declared names in the
\* order of declaration, and has_name(n) holds exactly for the declared names.
C6_NamesAsDeclared ==
    status = "ok"
    => /\ names(loader_dict) = [i \in 1..Len(cfg.decl) |-> cfg.decl[i].name]
       /\ \A n \in AskedNames : has_name(loader_dict, n) <=> n \in DeclNames(cfg.decl)

\* A dataset of several modalities after a record was fetched from it.
C6_Witness ==
    /\ status = "ok" /\ Len(cfg.decl) >= 2 /\ ReturnedRecord
    /\ names(loader_dict)[2] = cfg.decl[2].name

\* The declarations whose name an earlier declaration has.
Repeats(decl) == {j \in 1..Len(decl) : \E i \in 1..(j - 1) : decl[i].name = decl[j].name}

\* C7: when two declarations share a name the construction fails, and no
\* loader is built for the second occurrence.
C7_DuplicateFailsEarly ==
    (status # "new" /\ Repeats(cfg.decl) # {})
    => /\ status = "failed"
       /\ ctor_err # ""
       /\ Repeats(cfg.decl) \cap Range(built) = {}

\* A construction that failed on a repeated name after building the first
\* occurrence's loader.
C7_Witness ==
    /\ status = "failed" /\ Repeats(cfg.decl) # {}
    /\ ctor_err = "RuntimeError: duplicated" /\ built = <<1>>

\* C8: with max_cache_size = 0 the dataset has no cache, nothing is ever
\* stored, and every call that returns a record queried every loader.
C8_ZeroBudgetNoCache ==
    (cfg.max_cache_size = 0 /\ status = "ok")
    => /\ ~has_cache
       /\ DOMAIN cache = {}
       /\ csize = 0
       /\ ~ret.hit
       /\ ReturnedRecord => \A n \in DeclNames(cfg.decl) :
                               \E k \in 1..Len(qlog) : qlog[k].name = n

\* An id fetched a second time with max_cache_size = 0.
C8_Witness ==
    /\ cfg.max_cache_size = 0 /\ ReturnedRecord
    /\ ret.uid \in DOMAIN first /\ first[ret.uid].again
    /\ Len(qlog) = Len(cfg.decl)

\* The declarations whose file has no entry.
EmptyDecls(decl) == {i \in 1..Len(decl) : Len(Files[decl[i].path].ids) = 0}

\* C9: the construction fails when a declared modality's loader has no entry
\* and when no modality is declared; a constructed dataset has at least one
\* loader and every loader of it has at least one entry.
C9_EmptyFails ==
    /\ (status # "new" /\ (Len(cfg.decl) = 0 \/ EmptyDecls(cfg.decl) # {}))
       => (status = "failed" /\ ctor_err # "")
    /\ status = "ok"
       => /\ Len(loader_dict) > 0
          /\ \A i \in 1..Len(loader_dict) : LoaderLen(loader_dict[i]) > 0

\* A construction that failed on a loader without entries.
C9_Witness ==
    /\ status = "failed" /\ EmptyDecls(cfg.decl) # {}
    /\ ctor_err = "RuntimeError: no samples"

\* A tag that is a registered literal or matches a registered pattern as a
\* whole.
Registered(tag) ==
    \E i \in 1..Len(DATA_TYPES) : ReFullMatch(DATA_TYPES[i].key, tag)

\* C10: a type tag resolves to a loader exactly when it is a registered
\* literal or matches a registered pattern as a whole; the construction
\* fails on any other tag, "soundx" and "text_foo" among them.
C10_WholeTagOnly ==
    status # "new"
    => \A k \in 1..Len(built) :
          ~Registered(cfg.decl[built[k]].type)
          <=> (status = "failed" /\ ctor_err = "RuntimeError: not supported"
               /\ k = Len(built))

\* The ids of the first-declared modality's index file, in file order.
DeclaredIds == Files[cfg.decl[1].path].ids

\* The position in DeclaredIds an int index i stands for, counted from 0.
Position(i) == IF i < 0 THEN i + Len(DeclaredIds) ELSE i

\* A dataset whose records do not depend on chance.
Deterministic == cfg.mode # "train" /\ ~HasRandomLoader(loader_dict)

\* C11: get_record(i) with an int i fetches the id at position i of the
\* first-declared loader's order, the same on every call: the id it reports
\* is that id, and the record it returns is the record get_record of that id
\* returns.
C11_IndexResolves ==
    (ret.op = "getitem" /\ ret.index # <<>>)
    => /\ ret.err = "IndexError" <=> Position(ret.index[1]) \notin 0..(Len(DeclaredIds) - 1)
       /\ ret.err # "IndexError" => ret.uid = DeclaredIds[Position(ret.index[1]) + 1]
       /\ (ret.err = "" /\ Deterministic /\ ret.uid \in DOMAIN first)
          => ret.data = first[ret.uid].data

\* A record fetched by index 0 from a dataset whose loaders list their ids in
\* different orders, the id having been fetched before.
C11_Witness ==
    /\ ReturnedRecord /\ ret.index = <<0>> /\ ret.uid = DeclaredIds[1]
    /\ Files[cfg.decl[Len(cfg.decl)].path].ids[1] # DeclaredIds[1]
    /\ ret.uid \in DOMAIN first /\ first[ret.uid].again

\* C12: iterating the dataset yields the ids of the first-declared
\* modality's loader in that loader's order, and no call of the dataset
\* changes the loaders the iteration reads.
C12_IterFirstLoaderOrder ==
    [][status = "ok"
       => /\ loader_dict' = loader_dict
          /\ ret'.op = "iter" => ret'.ids = DeclaredIds]_vars

\* An iteration made after records were fetched and cached.
C12_Witness ==
    /\ ret.op = "iter" /\ Len(ret.ids) = Cardinality(Ids)
    /\ DOMAIN cache # {} /\ DOMAIN first # {}

TrainingPlain == status = "ok" /\ cfg.mode = "train" /\ cfg.pitch_mean.kind = "None"

\* C13: in "train" mode without pitch_mean, the pitch_aug of every record is
\* an integer between pitch_aug_min and pitch_aug_max, and the fetch that
\* drew it could have drawn every integer of that range.
C13_PitchInRange ==
    (TrainingPlain /\ ReturnedRecord)
    => /\ ret.data.val["pitch_aug"].data[1] \in cfg.pitch_aug_min..cfg.pitch_aug_max
       /\ Len(ret.data.val["pitch_aug"].data) = 1
       /\ ret.data.val["pitch_aug"].dtype = cfg.int_dtype
       /\ ~ret.hit => ret.pool = cfg.pitch_aug_min..cfg.pitch_aug_max

\* A record drawn with the upper end of a pitch range that has other values.
C13_Witness ==
    /\ TrainingPlain /\ ReturnedRecord /\ ~ret.hit
    /\ cfg.pitch_aug_min < 0
    /\ ret.data.val["pitch_aug"].data = <<cfg.pitch_aug_max>>

\* C14: in "train" mode the factors of every fetch of an id are drawn anew
\* in that fetch, from the whole configured range, whatever earlier fetches
\* of the id returned and with or without a cache.
C14_FreshDraws ==
    (TrainingPlain /\ ReturnedRecord)
    => /\ "sample" \in ret.did
       /\ ret.pool = cfg.pitch_aug_min..cfg.pitch_aug_max

\* C15: a fetch of an id the cache holds returns the cached record of that
\* id without drawing factors, querying a loader or preprocessing, and
\* leaves the cache as it was.
C15_HitFrame ==
    [][(status = "ok" /\ ret'.op = "getitem" /\ ret'.uid \in DOMAIN cache)
       => /\ ret'.hit /\ ret'.err = ""
          /\ ret'.data = cache[ret'.uid]
          /\ ret'.did = {} /\ ret'.pool = {}
          /\ qlog' = <<>>
          /\ rate' = rate
          /\ cache' = cache /\ csize' = csize]_vars

\* A hit in "train" mode, and a hit of a dataset that preprocesses, for an
\* id that is not the only one cached.
C15_Witness ==
    /\ ReturnedRecord /\ ret.hit
    /\ Cardinality(DOMAIN cache) >= 2
    /\ (cfg.mode = "train" \/ cfg.preprocess # "None")

\* C16: the set of cached ids changes only at the end of a fetch that
\* missed the cache and returned, by the id fetched, and only when the size
\* the cache tracked before the fetch was below max_cache_size; the tracked
\* size never shrinks, so once it has reached max_cache_size the set of
\* cached ids stays as it is.
C16_AdmitUnderBudget ==
    [][status = "ok"
       => /\ DOMAIN cache' # DOMAIN cache
             => /\ has_cache /\ csize < cfg.max_cache_size
                /\ ret'.op = "getitem" /\ ret'.err = "" /\ ~ret'.hit
                /\ DOMAIN cache' = DOMAIN cache \cup {ret'.uid}
          /\ csize >= cfg.max_cache_size => DOMAIN cache' = DOMAIN cache
          /\ csize' >= csize]_vars

\* A record returned on a miss and not admitted, the cache being full.
C16_Witness ==
    /\ has_cache /\ csize >= cfg.max_cache_size /\ DOMAIN cache # {}
    /\ ReturnedRecord /\ ~ret.hit /\ ret.uid \notin DOMAIN cache

\* C17: the cache never evicts or replaces: an id once cached stays cached
\* with the record stored for it, and every later fetch of the id returns
\* that record.
C17_NoEviction ==
    [][/\ \A u \in DOMAIN cache : u \in DOMAIN cache' /\ cache'[u] = cache[u]
       /\ (ret'.op = "getitem" /\ ret'.uid \in DOMAIN cache)
          => (ret'.err = "" /\ ret'.data = cache[ret'.uid])]_vars

\* A hit on one of several cached ids while the cache still admits.
C17_Witness ==
    /\ ReturnedRecord /\ ret.hit
    /\ Cardinality(DOMAIN cache) >= 2 /\ csize < cfg.max_cache_size

\* C18: no fetch changes what a loader holds: after any calls, in any mode,
\* every loader returns for every id the value it returned before them; no
\* row of an array a loader keeps in memory has been overwritten.
C18_LoadersUnchanged == held = {}

\* The loaders behind an audio adapter.
IsSound(name) == LoaderOf(loader_dict, name).func \in {"sound_loader", "kaldi_loader"}

\* C19: an audio adapter keeps the rate its first successful lookup found:
\* a lookup that succeeds leaves the adapter remembering the rate of the
\* utterance it returned, a rate once remembered never changes (so a lookup
\* of another rate raises), and a lookup that raises leaves the remembered
\* rate as it was.
C19_RateConsistent ==
    [][status = "ok"
       => \A n \in DOMAIN rate :
             /\ rate[n] # 0 => rate'[n] = rate[n]
             /\ \A k \in 1..Len(qlog') :
                   (qlog'[k].name = n /\ IsSound(n))
                   => IF qlog'[k].ok THEN rate'[n] = RateOf(qlog'[k].uid)
                      ELSE rate'[n] = rate[n]]_vars

\* A lookup that raised on an utterance whose rate is not the remembered one.
C19_Witness ==
    /\ ret.op = "getitem" /\ ret.err = "RuntimeError" /\ qlog # <<>>
    /\ ~qlog[Len(qlog)].ok /\ qlog[Len(qlog)].tuple /\ IsSound(qlog[Len(qlog)].name)
    /\ rate[qlog[Len(qlog)].name] \notin {0, RateOf(ret.uid)}

\* C20: the audio adapter accepts both orders: a lookup of an utterance on
\* file, with a rate that agrees with the one remembered, succeeds whether
\* the reader returns (rate, waveform) or (waveform, rate), and the value
\* the record gets is the waveform.
C20_BothOrders ==
    status = "ok"
    => \A k \in 1..Len(qlog) :
          (/\ LoaderOf(loader_dict, qlog[k].name).func = "sound_loader"
           /\ qlog[k].tuple
           /\ HasKey(LoaderOf(loader_dict, qlog[k].name).path, qlog[k].uid)
           /\ rate[qlog[k].name] \in {0, RateOf(qlog[k].uid)})
          => /\ qlog[k].ok
             /\ ReturnedRecord => ret.data.val[qlog[k].name].kind = "ndarray"

\* The queries of the last call that its loading loop made: all but the one
\* the pitch-mean branch makes before the factors are drawn.
Probes == IF cfg.mode = "train" /\ cfg.pitch_mean.kind # "None" THEN 1 ELSE 0
LoadQueries == {i \in 1..Len(qlog) : i > Probes}

\* The loaders that read audio or MIDI.
ReadsAugmented(name) ==
    LoaderOf(loader_dict, name).func \in {"sound_loader", "midi_loader"}

\* C21 as stated: in a call that missed the cache the factors are drawn once,
\* every query of an audio or MIDI loader in that call carries the pitch
\* factor the record returns as pitch_aug, and the time factor 1.
C21_OnePitchEveryQuery ==
    (ReturnedRecord /\ ~ret.hit)
    => \A i \in 1..Len(qlog) :
          ReadsAugmented(qlog[i].name)
          => /\ qlog[i].tuple
             /\ qlog[i].pitch = ret.data.val["pitch_aug"].data[1]
             /\ qlog[i].time = 1

\* C21: in a call that missed the cache every query the loading loop makes
\* of an audio or MIDI loader carries the pitch factor the record returns as
\* pitch_aug and the time factor 1; the one query made before the factors
\* are drawn, by the pitch-mean branch, carries pitch 0 and time 1.
C21_OnePitchInLoadingLoop ==
    (ReturnedRecord /\ ~ret.hit)
    => /\ (cfg.mode = "train") = ("sample" \in ret.did)
       /\ \A i \in LoadQueries :
             ReadsAugmented(qlog[i].name)
             => /\ qlog[i].tuple
                /\ qlog[i].pitch = ret.data.val["pitch_aug"].data[1]
                /\ qlog[i].time = 1
       /\ \A i \in (1..Len(qlog)) \ LoadQueries :
             /\ qlog[i].name = "midi" /\ qlog[i].tuple
             /\ qlog[i].pitch = 0 /\ qlog[i].time = 1

\* A record whose audio and notes were both read with a factor that is not 0,
\* after the notes were first read unshifted.
C21_Witness ==
    /\ ReturnedRecord /\ ~ret.hit /\ Probes = 1
    /\ ret.data.val["pitch_aug"].data[1] # 0
    /\ \E i, j \in LoadQueries :
          /\ qlog[i].name = "singing" /\ qlog[j].name = "midi"
          /\ qlog[i].pitch = qlog[j].pitch

\* A record assembled in "train" mode by the last call.
TrainedRecord == ReturnedRecord /\ ~ret.hit /\ cfg.mode = "train"

\* The rows b+1..e of the first n rows of q, written to zero where masked.
Window(q, n, mb, me, b, e) ==
    [i \in 1..(e - b) |-> IF b + i > mb /\ b + i <= me THEN 0 ELSE q[b + i]]

\* C22: in "train" mode with mask_aug the span [mb, me) drawn lies within the
\* aligned length and covers at most a fifth of it; every aligned modality
\* of the record is what the alignment loop received, cut to the aligned
\* length, with exactly the rows of that span written to zero (and cut to
\* the crop window when one is drawn), so a mask alone leaves every aligned
\* modality at the aligned length.
C22_MaskSpan ==
    (TrainedRecord /\ cfg.mask_aug)
    => /\ 0 <= ret.span.mb /\ ret.span.mb <= ret.span.me /\ ret.span.me <= ret.span.len
       /\ 5 * (ret.span.me - ret.span.mb) <= ret.span.len
       /\ \A x \in Aligned :
             /\ ret.data.val[x].kind = "ndarray"
             /\ ret.data.val[x].data =
                   Window(ret.pre.val[x].data, ret.span.len, ret.span.mb, ret.span.me,
                          ret.span.cb, ret.span.ce)
             /\ ~cfg.random_crop => Len(ret.data.val[x].data) = ret.span.len

\* A record of two aligned modalities with one row masked in both and the
\* other rows as loaded.
C22_Witness ==
    /\ TrainedRecord /\ cfg.mask_aug /\ ~cfg.random_crop
    /\ Cardinality(Aligned) = 2
    /\ ret.span.me = ret.span.mb + 1
    /\ \A x \in Aligned :
          /\ ret.pre.val[x].data[ret.span.me] # 0
          /\ ret.data.val[x].data[ret.span.me] = 0
          /\ \E i \in 1..ret.span.len : ret.data.val[x].data[i] # 0

\* C23: in "train" mode with random_crop the window [cb, ce) drawn has a
\* length c between floor(0.8 L) and the aligned length L and lies within
\* 0..L; every aligned modality of the record has c rows along time, those
\* of that window.
C23_CropWindow ==
    (TrainedRecord /\ cfg.random_crop)
    => /\ 0 <= ret.span.cb /\ ret.span.ce <= ret.span.len
       /\ (4 * ret.span.len) \div 5 <= ret.span.ce - ret.span.cb
       /\ ret.span.ce - ret.span.cb <= ret.span.len
       /\ \A x \in Aligned : TimeLen(ret.data.val[x]) = ret.span.ce - ret.span.cb

\* The notes on file for the id of the last call, as the MIDI reader gives
\* them unshifted.
NotesOnFile ==
    Rows(LoaderOf(loader_dict, "midi").path,
         EntryLen(seed, LoaderOf(loader_dict, "midi").path, ret.uid), 0)

\* g is int(target - mean) for the target (in hundredths) and the notes: the
\* integer next to the difference on the side of zero.
IsGap(g, target, notes) ==
    LET d == target * Len(notes) - Hundred * SeqSum(notes)
        den == Hundred * Len(notes)
    IN  IF d >= 0 THEN g * den <= d /\ d < (g + 1) * den
        ELSE (g - 1) * den < d /\ d <= g * den

\* The integers from 0 to g, whichever side of 0 g is on.
ZeroTo(g) == {i \in -Hundred..Hundred : (0 <= i /\ i <= g) \/ (g <= i /\ i <= 0)}

\* C24: in "train" mode with one pitch-mean target the pitch factor of a
\* record assembled lies between 0 and the gap int(target - mean of the
\* unshifted notes), and was drawn from all the integers between them.
C24_PitchTowardsMean ==
    (TrainedRecord /\ cfg.pitch_mean.kind = "float")
    => \E g \in -Hundred..Hundred :
          /\ IsGap(g, cfg.pitch_mean.vals[1], NotesOnFile)
          /\ ret.data.val["pitch_aug"].data[1] \in ZeroTo(g)
          /\ ret.pool = ZeroTo(g)

\* A record shifted down by the whole gap, the target lying below the mean of
\* the notes by a number that is not whole.
C24_Witness ==
    /\ TrainedRecord /\ cfg.pitch_mean.kind = "float"
    /\ (cfg.pitch_mean.vals[1] * Len(NotesOnFile) - Hundred * SeqSum(NotesOnFile))
           % (Hundred * Len(NotesOnFile)) # 0
    /\ ret.data.val["pitch_aug"].data[1] < 0
    /\ IsGap(ret.data.val["pitch_aug"].data[1], cfg.pitch_mean.vals[1], NotesOnFile)

\* The positions of the speaker tags an id contains.
TagsIn(uid) ==
    {i \in 1..4 :
        IsSubstring(<< <<"o", "n", "i", "k", "u">>, <<"o", "f", "u", "t", "o", "n">>,
                       <<"k", "i", "r", "i", "t", "a", "n">>,
                       <<"n", "a", "t", "s", "u", "m", "e">> >>[i], uid)}

\* C25: in "train" mode with a list of pitch-mean targets, a call returns a
\* record only for an id that holds exactly one speaker tag, the factor being
\* drawn towards the target at that tag's position; for an id on file with
\* no tag or several the call raises AssertionError, and the cache holds no
\* such id.
C25_OneSpeakerTag ==
    (cfg.pitch_mean.kind = "list" /\ cfg.mode = "train" /\ ret.op = "getitem")
    => /\ ret.err = ""
          => /\ Cardinality(TagsIn(ret.uid)) = 1
             /\ ~ret.hit
                => \E g \in -Hundred..Hundred :
                      /\ IsGap(g, cfg.pitch_mean.vals[CHOOSE i \in TagsIn(ret.uid) : TRUE],
                               NotesOnFile)
                      /\ ret.pool = ZeroTo(g)
       /\ (HasKey(loader_dict[1].path, ret.uid) /\ Cardinality(TagsIn(ret.uid)) # 1)
          => ret.err = "AssertionError"
       /\ \A u \in DOMAIN cache : Cardinality(TagsIn(u)) = 1

\* An id with two tags refused after an id with the second tag was served
\* and cached with a factor drawn towards the second target.
C25_Witness ==
    /\ cfg.pitch_mean.kind = "list" /\ ret.op = "getitem"
    /\ ret.uid = U_both /\ ret.err = "AssertionError"
    /\ U_ofuton \in DOMAIN cache
    /\ cache[U_ofuton].val["pitch_aug"].data[1] < 0

\* C26: in "train" mode the time factor of every record assembled is a
\* multiple of 0.01 between time_aug_min and time_aug_max, ends included:
\* with both set to 0.29 the factor is 0.29.
C26_TimeInRange ==
    TrainedRecord
    => /\ Len(ret.data.val["time_aug"].data) = 1
       /\ ret.data.val["time_aug"].data[1] \in cfg.time_aug_min..cfg.time_aug_max

\* The values a value of a record holds: the items of a pair, or the value.
Arrays(v) == IF v.kind = "tuple" THEN Range(v.items) ELSE {v}

\* Two names of one element type: "long" is int64.
SamePrecision(a, b) == a = b \/ {a, b} = {"int64", "long"}

\* C27: in every record returned every float array, those inside a pair of
\* arrays included, has the configured float precision, every integer array
\* the configured integer precision, and no value of another element kind is
\* returned.
C27_ConfiguredPrecision ==
    ReturnedRecord
    => \A x \in KeySet(ret.data) : \A a \in Arrays(ret.data.val[x]) :
          /\ a.kind = "ndarray"
             => /\ DKind(a.dtype) \in {"f", "i"}
                /\ DKind(a.dtype) = "f" => SamePrecision(a.dtype, cfg.float_dtype)
                /\ DKind(a.dtype) = "i" => SamePrecision(a.dtype, cfg.int_dtype)

\* The modalities read through the label adapter.
LabelNames ==
    {loader_dict[i].name : i \in {j \in 1..Len(loader_dict) :
                                     loader_dict[j].func = "label_loader"}}

\* C29: for an entry of n triples the label adapter returns a pair: an array
\* of element type float32 whose n rows are the start and end of the triples
\* in order, and the n phones in order.
C29_LabelPair ==
    (ReturnedRecord /\ ~ret.hit /\ cfg.preprocess = "None")
    => \A x \in LabelNames :
          LET v == ret.pre.val[x]
              path == LoaderOf(loader_dict, x).path
          IN  /\ v.kind = "tuple" /\ Len(v.items) = 2
              /\ v.items[1].kind = "ndarray"
              /\ v.items[1].data = Rows(path, EntryLen(seed, path, ret.uid), 0)
              /\ Len(v.items[2].chars) = EntryLen(seed, path, ret.uid)
              /\ v.items[1].dtype = "float32"

\* C28: when a loader raises in a get_record call, the call raises after
\* logging.error was called, the query that raised is the last one the call
\* makes, the preprocessing is not reached, and the cache is as it was
\* before the call.
C28_LoaderErrorPropagates ==
    [][(status = "ok" /\ ret'.op = "getitem"
        /\ \E i \in 1..Len(qlog') : ~qlog'[i].ok)
       => /\ ret'.err # ""
          /\ ret'.logged
          /\ \A i \in 1..Len(qlog') : ~qlog'[i].ok => i = Len(qlog')
          /\ "preprocess" \notin ret'.did
          /\ cache' = cache /\ csize' = csize]_vars

\* Both workers went through their plans.
AllDone == \A w \in Workers : wpc[w].at = "done"

\* The ids the workers were asked for.
Planned == Range(wpc[1].plan)

\* C30 as stated: two workers that fetch the same ids through one cache end,
\* whatever the interleaving, without an error and with each id in the cache;
\* outside "train" mode the two records returned for an id are equal and the
\* cached record equals them.
C30_DuplicateInsertIdempotent ==
    /\ \A w \in Workers : wpc[w].err = ""
    /\ AllDone
       => \A u \in Planned :
             /\ u \in DOMAIN cache
             /\ cfg.mode # "train"
                => /\ wrec[1][u] = wrec[2][u]
                   /\ cache[u] = wrec[1][u]

\* C30: two workers that fetch the same ids through one cache end, whatever
\* the interleaving, without an error and with each id in the cache unless
\* the cache reached its budget; outside "train" mode, when no modality is
\* drawn at random, the two records returned for an id are equal and the
\* cached record, if there is one, equals them.
C30_DuplicateInsertTolerated ==
    /\ \A w \in Workers : wpc[w].err = ""
    /\ AllDone
       => \A u \in Planned :
             /\ u \in DOMAIN cache \/ csize >= cfg.max_cache_size
             /\ (cfg.mode # "train" /\ ~HasRandomLoader(loader_dict))
                => /\ wrec[1][u] = wrec[2][u]
                   /\ u \in DOMAIN cache => cache[u] = wrec[1][u]

\* Both workers missed the same id, both inserted it, and both went on to an
\* id the cache took from both as well.
C30_Witness ==
    /\ AllDone /\ cfg.mode # "train" /\ ~HasRandomLoader(loader_dict)
    /\ Cardinality(Planned) = 2
    /\ \A w \in Workers : wpc[w].ins = Planned

====
